---- MODULE Spec2Model ----
(***************************************************************************)
(* Model of cx_support_agent.py: the per-conversation memory store, the    *)
(* query handler (handle_query) and the session facade (answer_question),  *)
(* together with the output sanitizer (strip_artifacts) and the history    *)
(* formatter (format_chat_history).                                        *)
(*                                                                         *)
(* Texts are sequences of tokens.  A token is one character class or one   *)
(* literal the code's regular expressions and string operations look at:   *)
(* "FA"/"fa" the label "Final Answer:" in two letter cases, " " and "\n"   *)
(* whitespace, "EM" the placeholder "[email protected]", and opaque words.  *)
(* A fixed response of the code is a one-token text holding its wording.   *)
(***************************************************************************)
EXTENDS Integers, Sequences, FiniteSets, TLC

\* ------------------------------------------------------------------ bounds
MaxExchanges == 1     \* exchanges stored before the last calls of a concurrent run
MaxSeqExchanges == 6  \* exchanges stored before the last call of a sequential run
MaxHandlerExchanges == 2  \* the same, for direct calls of handle_query
MaxLen == 3          \* tokens of a text given to strip_artifacts alone

\* ---------------------------------------------------------------- constants
K == 5               \* ConversationBufferWindowMemory(k=5)

\* -------------------------------------------------------------------- texts
Label == {"FA", "fa"}
Space == {" ", "\n"}
Placeholder == "EM"
Substitute == "the correct email address"
Alphabet == {"FA", "fa", " ", "\n", "EM", "x"}

RECURSIVE LStrip(_)
LStrip(s) == IF s # <<>> /\ Head(s) \in Space THEN LStrip(Tail(s)) ELSE s

RECURSIVE RStrip(_)
RStrip(s) ==
    IF s # <<>> /\ s[Len(s)] \in Space THEN RStrip(SubSeq(s, 1, Len(s) - 1)) ELSE s

\* str.strip()
Strip(s) == RStrip(LStrip(s))

\* re.sub(r'^Final Answer:\s*', '', output, flags=re.IGNORECASE)
SubLeadingLabel(s) ==
    IF s # <<>> /\ Head(s) \in Label THEN LStrip(Tail(s)) ELSE s

\* The text left at position i after one match of \n\s*Final Answer:\s* that
\* starts at i, or the marker <<"nomatch">> when none starts there.
MatchLineLabel(s) ==
    IF s # <<>> /\ Head(s) = "\n"
    THEN LET r == LStrip(Tail(s))
         IN  IF r # <<>> /\ Head(r) \in Label THEN LStrip(Tail(r)) ELSE <<"nomatch">>
    ELSE <<"nomatch">>

\* re.sub(r'\n\s*Final Answer:\s*', '\n', output, flags=re.IGNORECASE):
\* every leftmost non-overlapping match, left to right.
RECURSIVE SubLineLabel(_)
SubLineLabel(s) ==
    IF s = <<>> THEN <<>>
    ELSE LET m == MatchLineLabel(s)
         IN  IF m # <<"nomatch">>
             THEN <<"\n">> \o SubLineLabel(m)
             ELSE <<Head(s)>> \o SubLineLabel(Tail(s))

\* re.sub(r'\[email protected\]', 'the correct email address', output, ...)
SubPlaceholder(s) ==
    [i \in 1..Len(s) |-> IF s[i] = Placeholder THEN Substitute ELSE s[i]]

\* strip_artifacts on a text (the three substitutions never raise on a str)
strip_artifacts(output) ==
    Strip(SubPlaceholder(Strip(SubLineLabel(Strip(SubLeadingLabel(output))))))

\* strip_artifacts when the statement of line 67 + step raises (steps 1-3 are
\* the substitutions, step 4 the logger.debug of line 71): the except branch
\* returns output, which every completed statement has reassigned
strip_artifacts_raising(output, step) ==
    LET o1 == Strip(SubLeadingLabel(output))
        o2 == Strip(SubLineLabel(o1))
        o3 == Strip(SubPlaceholder(o2))
    IN  CASE step = 1 -> output
          [] step = 2 -> o1
          [] step = 3 -> o2
          [] OTHER -> o3

\* ------------------------------------------------------------ fixed texts
EmptyQuestionAnswer == <<"It looks like you didn't ask a question. How can I help you today?">>
MemoryInitAnswer == <<"I'm sorry, there was an issue setting up the conversation. Please try again.">>
AnswerCriticalAnswer == <<"We're sorry, an unexpected error occurred. Please try again or contact support.">>
EmptyQueryAnswer == <<"I'm sorry, it seems you didn't provide a question. How can I assist you today?">>
RetrieverNoneAnswer == <<"I'm sorry, we're experiencing an issue with our information system. Please try again later or contact support.">>
RetrieverRaisedAnswer == <<"I'm sorry, I couldn't retrieve the necessary information. Please try rephrasing your question or contact our support team.">>
ChainProviderAnswer == <<"I'm sorry, there was an issue processing your request. Please try again or contact support for assistance.">>
ChainOtherAnswer == <<"An unexpected error occurred. Please try again later or reach out to our support team.">>
HandleCriticalAnswer == <<"We're sorry, an unexpected error occurred. Please try again later or contact our support team for assistance.">>
NoHistoryText == <<"No previous conversation history.">>
HistoryErrorText == <<"Error accessing chat history.">>
HistoryHeader == <<"Conversation History:", "\n">>

\* ------------------------------------------------------------------ inputs
Workers == {"w1", "w2"}
SeqWorker == "w1"
NoId == <<"none", 0>>
EmptyId == <<"empty", 0>>   \* the conversation id ""
CallerIds == {<<"caller", 1>>, <<"caller", 2>>}
NotText == <<"<not a str>">>
Questions == {<<>>, <<" ", "\n">>, <<"q1">>, <<" ", "q2">>, NotText}
DocLists == {<<>>, << <<"d1">>, <<>>, <<"d2">> >>}
LLMOutputs == {<<"a1">>, <<"FA", " ", "a2", "\n">>}
\* what a sequential run draws from
SeqEnv == [limit |-> MaxSeqExchanges, sequential |-> TRUE, questions |-> Questions,
           docs |-> DocLists, outputs |-> {<<"FA", " ", "a2", "\n">>},
           history_raises |-> BOOLEAN]
\* what a concurrent run draws from
ConcEnv == [limit |-> MaxExchanges, sequential |-> FALSE,
            questions |-> {<<"q1">>, <<" ", "q2">>},
            docs |-> {<<>>}, outputs |-> {<<"a1">>},
            history_raises |-> {FALSE}]
DomainValues == {<<>>, <<"dom">>}
NoResult == [answer |-> <<>>, conversation_id |-> NoId]
NoRequest == <<>>

\* str(uuid.uuid4()): the n-th identifier generated, distinct from all others
Uuid(n) == <<"uuid", n>>

\* a blank test that forgets strip(): not user_question
IsEmpty(q) == q = <<>>

\* not user_question.strip()
IsBlank(q) == Strip(q) = <<>>

\* ------------------------------------------------- the memory session object
\* A ConversationBufferWindowMemory is its chat_memory.messages: a list of
\* messages [type, content], two per saved exchange.

\* save_context({"question": q}, {"output": a}): chat_memory gets the human
\* message and the AI message appended; nothing is removed.
\* a save that stores the exchange twice
save_context_twice(msgs, q, a) ==
    msgs \o <<[type |-> "human", content |-> q], [type |-> "ai", content |-> a],
              [type |-> "human", content |-> q], [type |-> "ai", content |-> a]>>

save_context(msgs, q, a) ==
    msgs \o <<[type |-> "human", content |-> q], [type |-> "ai", content |-> a]>>

\* a window of k messages instead of k exchanges: messages[-k:]
WindowHalf(msgs) ==
    IF Len(msgs) > K THEN SubSeq(msgs, Len(msgs) - K + 1, Len(msgs)) ELSE msgs

\* a window that keeps the oldest exchanges: messages[:k*2]
WindowOldest(msgs) ==
    IF Len(msgs) > 2 * K THEN SubSeq(msgs, 1, 2 * K) ELSE msgs

\* the buffer read by load_memory_variables: messages[-k*2:]
Window(msgs) ==
    IF Len(msgs) > 2 * K THEN SubSeq(msgs, Len(msgs) - 2 * K + 1, Len(msgs)) ELSE msgs

\* get_buffer_string: "Human: <content>" / "AI: <content>", joined by newlines
RECURSIVE BufferString(_)
BufferString(msgs) ==
    IF msgs = <<>> THEN <<>>
    ELSE LET m == Head(msgs)
             line == <<IF m.type = "human" THEN "Human: " ELSE "AI: ">> \o m.content
         IN  IF Tail(msgs) = <<>> THEN line
             ELSE line \o <<"\n">> \o BufferString(Tail(msgs))

\* memory.load_memory_variables({}).get("chat_history", "")
load_memory_variables(msgs) == BufferString(Window(msgs))

\* .replace('Human: ', 'User: ').replace('Assistant: ', 'AI: ')
ReplaceLabels(s) ==
    [i \in 1..Len(s) |-> IF s[i] = "Human: " THEN "User: "
                         ELSE IF s[i] = "Assistant: " THEN "AI: " ELSE s[i]]

\* a formatter that reports a failed read as an empty history
format_chat_history_silent(msgs, raised) ==
    IF raised \/ msgs = <<>> THEN NoHistoryText
    ELSE HistoryHeader \o ReplaceLabels(BufferString(Window(msgs)))

\* format_chat_history(memory, ...); raised: load_memory_variables raised
format_chat_history(msgs, raised) ==
    IF raised THEN HistoryErrorText
    ELSE LET chat_history == load_memory_variables(msgs)
         IN  IF chat_history = <<>> THEN NoHistoryText
             ELSE HistoryHeader \o ReplaceLabels(chat_history)

\* a join that keeps the empty passages
RECURSIVE JoinContextAll(_)
JoinContextAll(passages) ==
    IF passages = <<>> THEN <<>>
    ELSE IF Tail(passages) = <<>> THEN Head(passages)
    ELSE Head(passages) \o <<"\n", "\n">> \o JoinContextAll(Tail(passages))

\* "\n\n".join(doc.page_content for doc in docs if doc.page_content) if docs else ""
RECURSIVE JoinContext(_)
JoinContext(passages) ==
    IF passages = <<>> THEN <<>>
    ELSE LET rest == JoinContext(Tail(passages))
         IN  IF Head(passages) = <<>> THEN rest
             ELSE IF rest = <<>> THEN Head(passages)
             ELSE Head(passages) \o <<"\n", "\n">> \o rest

\* ------------------------------------------------------------------- state
VARIABLES
    memories,             \* the dict memories: conversation id -> session object
    heap,                 \* the session objects ever constructed: their messages
    DOMAIN_INSTRUCTIONS,  \* the process-wide domain instructions
    uuids,                \* conversation ids generated by uuid4
    returned,             \* generated conversation ids a caller has received
    pc,                   \* each worker's position in answer_question/handle_query
    user_question,        \* answer_question's argument user_question
    supplied,             \* answer_question's argument conversation_id
    conversation_id,      \* the local conversation_id after line 179
    memory,               \* the local memory: a session object
    docs,                 \* handle_query's local docs: the retrieved passages
    context,              \* handle_query's local context
    chat_history,         \* handle_query's local chat_history
    output,               \* handle_query's local output
    request,              \* the inputs given to chain.invoke
    result,               \* what answer_question returned
    trace,                \* the collaborator calls this query has made, in order
    before,               \* memories and heap when the call started
    log,                  \* the exchanges save_context has stored, in order
    san                   \* strip_artifacts applied on its own: input and outputs

vars == <<memories, heap, DOMAIN_INSTRUCTIONS, uuids, returned, pc,
          user_question, supplied, conversation_id, memory, docs, context,
          chat_history, output, request, result, trace, before, log, san>>

locals == <<user_question, supplied, conversation_id, memory, docs, context,
            chat_history, output, request, result, trace, before>>

NoSnapshot == [memories |-> <<>>, heap |-> <<>>]
NoSan == [pc |-> "off", input |-> <<>>, once |-> <<>>, twice |-> <<>>, failed |-> 0]

InitProgram ==
    /\ memories = <<>>
    /\ heap = <<>>
    /\ DOMAIN_INSTRUCTIONS = <<>>
    /\ uuids = 0
    /\ returned = {}
    /\ pc = [w \in Workers |-> "idle"]
    /\ user_question = [w \in Workers |-> <<>>]
    /\ supplied = [w \in Workers |-> NoId]
    /\ conversation_id = [w \in Workers |-> NoId]
    /\ memory = [w \in Workers |-> 0]
    /\ docs = [w \in Workers |-> <<>>]
    /\ context = [w \in Workers |-> <<>>]
    /\ chat_history = [w \in Workers |-> <<>>]
    /\ output = [w \in Workers |-> <<>>]
    /\ request = [w \in Workers |-> NoRequest]
    /\ result = [w \in Workers |-> NoResult]
    /\ trace = [w \in Workers |-> <<>>]
    /\ before = [w \in Workers |-> NoSnapshot]
    /\ log = <<>>

Init == InitProgram /\ san = NoSan

\* ------------------------------------------------------- leaving a function
\* answer_question returns {"answer": text, "conversation_id": conversation_id}
Finish(w, text) ==
    /\ pc' = [pc EXCEPT ![w] = "done"]
    /\ result' = [result EXCEPT ![w] =
                    [answer |-> text, conversation_id |-> conversation_id[w]]]

\* an exception leaves answer_question
Propagate(w) ==
    /\ pc' = [pc EXCEPT ![w] = "raised"]
    /\ result' = result

\* answer_question's except Exception (lines 216-221)
AnswerQuestionExcept(w) == Finish(w, AnswerCriticalAnswer)

\* handle_query's except Exception (lines 167-169), returned by lines 209-214
HandleQueryExcept(w) == Finish(w, HandleCriticalAnswer)

Did(w, event) == trace' = [trace EXCEPT ![w] = Append(@, event)]

\* ----------------------------------------------------------- answer_question
\* lines 176-180: the call, with the conversation id supplied or generated
\* the conversation ids a caller supplies: one caller with one conversation
\* supplies none (or "") on its first call and then the id it was given; concurrent
\* callers supply ids of their own
SuppliedIds(env) ==
    IF env.sequential THEN (IF returned = {} THEN {NoId, EmptyId} ELSE returned)
    ELSE CallerIds

\* a supplied id that is always taken for missing
AlwaysAbsent(s) == TRUE

\* line 179: "conversation_id or ...": None and "" are both false
Absent(s) == s \in {NoId, EmptyId}

Call(w, env) ==
    /\ pc[w] = "idle"
    /\ Len(log) + Cardinality({v \in Workers : pc[v] # "idle"}) <= env.limit
    /\ \E q \in env.questions, s \in SuppliedIds(env) :
         /\ user_question' = [user_question EXCEPT ![w] = q]
         /\ supplied' = [supplied EXCEPT ![w] = s]
         /\ conversation_id' = [conversation_id EXCEPT ![w] =
                                  IF Absent(s) THEN Uuid(uuids + 1) ELSE s]
         /\ uuids' = IF Absent(s) THEN uuids + 1 ELSE uuids
    /\ before' = [before EXCEPT ![w] =
                    IF env.sequential THEN [memories |-> memories, heap |-> heap]
                    ELSE NoSnapshot]
    /\ pc' = [pc EXCEPT ![w] = "validate"]
    /\ UNCHANGED <<memories, heap, DOMAIN_INSTRUCTIONS, returned, memory, docs, context,
                   chat_history, output, request, result, trace, log, san>>

\* lines 182-188: user_question.strip() raises on a non-text; a blank question
\* returns the fixed answer
Validate(w) ==
    /\ pc[w] = "validate"
    /\ IF user_question[w] = NotText THEN AnswerQuestionExcept(w)
       ELSE IF IsBlank(user_question[w]) THEN Finish(w, EmptyQuestionAnswer)
       ELSE pc' = [pc EXCEPT ![w] = "check_memory"] /\ result' = result
    /\ UNCHANGED <<memories, heap, DOMAIN_INSTRUCTIONS, uuids, returned,
                   user_question, supplied, conversation_id, memory, docs, context,
                   chat_history, output, request, trace, before, log, san>>

\* a lookup that never finds the session
NeverHasSession(w) == FALSE

\* line 191: conversation_id in memories
HasSession(w) == conversation_id[w] \in DOMAIN memories

\* line 191: if conversation_id not in memories
CheckMemory(w) ==
    /\ pc[w] = "check_memory"
    /\ pc' = [pc EXCEPT ![w] =
                IF HasSession(w) THEN "get_memory" ELSE "create_memory"]
    /\ UNCHANGED <<memories, heap, DOMAIN_INSTRUCTIONS, uuids, returned,
                   locals, log, san>>

\* memories[conversation_id] = <a new object>
Register(w, obj) ==
    [i \in DOMAIN memories \cup {conversation_id[w]} |->
        IF i = conversation_id[w] THEN obj ELSE memories[i]]

\* lines 193-206: construct the session and register it, or report the failure
CreateMemory(w) ==
    /\ pc[w] = "create_memory"
    /\ \/ /\ heap' = Append(heap, <<>>)
          /\ memories' = Register(w, Len(heap) + 1)
          /\ pc' = [pc EXCEPT ![w] = "get_memory"]
          /\ result' = result
          /\ Did(w, "create")
       \/ /\ Finish(w, MemoryInitAnswer)
          /\ UNCHANGED <<memories, heap>>
          /\ Did(w, "create_raised")
    /\ UNCHANGED <<DOMAIN_INSTRUCTIONS, uuids, returned, user_question,
                   supplied, conversation_id, memory, docs, context, chat_history,
                   output, request, before, log, san>>

\* line 208: memory = memories[conversation_id]
GetMemory(w) ==
    /\ pc[w] = "get_memory"
    /\ memory' = [memory EXCEPT ![w] = memories[conversation_id[w]]]
    /\ pc' = [pc EXCEPT ![w] = "handle_query"]
    /\ UNCHANGED <<memories, heap, DOMAIN_INSTRUCTIONS, uuids, returned,
                   user_question, supplied, conversation_id, docs, context,
                   chat_history, output, request, result, trace, before, log, san>>

\* -------------------------------------------------------------- handle_query
\* handle_query called by itself (line 103): the caller passes the question,
\* a session object of its own and, optionally, a conversation id; the text
\* handle_query returns is kept in result.answer
HandlerIds == {NoId, <<"c", 1>>}

\* the environment of the direct calls: that of the sequential caller, with
\* fewer exchanges
HandlerEnv == [SeqEnv EXCEPT !.limit = MaxHandlerExchanges]

CallHandler(w, env) ==
    /\ pc[w] = "idle"
    /\ Len(log) + Cardinality({v \in Workers : pc[v] # "idle"}) <= env.limit
    /\ heap' = IF heap = <<>> THEN << <<>> >> ELSE heap
    /\ memory' = [memory EXCEPT ![w] = 1]
    /\ \E q \in env.questions, s \in HandlerIds :
         /\ user_question' = [user_question EXCEPT ![w] = q]
         /\ supplied' = [supplied EXCEPT ![w] = s]
         /\ conversation_id' = [conversation_id EXCEPT ![w] = s]
    /\ before' = [before EXCEPT ![w] = [memories |-> memories, heap |-> heap']]
    /\ pc' = [pc EXCEPT ![w] = "handle_query"]
    /\ UNCHANGED <<memories, DOMAIN_INSTRUCTIONS, uuids, returned, docs, context,
                   chat_history, output, request, result, trace, log, san>>

\* a handler that does not look at its input
HandleNoValidate(w) ==
    /\ pc[w] = "handle_query"
    /\ pc' = [pc EXCEPT ![w] = "get_retriever"] /\ result' = result
    /\ UNCHANGED <<memories, heap, DOMAIN_INSTRUCTIONS, uuids, returned,
                   user_question, supplied, conversation_id, memory, docs, context,
                   chat_history, output, request, trace, before, log, san>>

\* lines 106-109: input_str.strip() raises on a non-text (caught on line 167);
\* a blank input_str returns the fixed answer
HandleValidate(w) ==
    /\ pc[w] = "handle_query"
    /\ IF user_question[w] = NotText THEN HandleQueryExcept(w)
       ELSE IF IsBlank(user_question[w]) THEN Finish(w, EmptyQueryAnswer)
       ELSE pc' = [pc EXCEPT ![w] = "get_retriever"] /\ result' = result
    /\ UNCHANGED <<memories, heap, DOMAIN_INSTRUCTIONS, uuids, returned,
                   user_question, supplied, conversation_id, memory, docs, context,
                   chat_history, output, request, trace, before, log, san>>

\* lines 111-115: get_retriever() returns a retriever, returns None, or raises
GetRetriever(w) ==
    /\ pc[w] = "get_retriever"
    /\ \/ pc' = [pc EXCEPT ![w] = "retrieve"] /\ result' = result
                                            /\ Did(w, "get_retriever")
       \/ Finish(w, RetrieverNoneAnswer) /\ Did(w, "get_retriever_none")
       \/ HandleQueryExcept(w) /\ Did(w, "get_retriever_raised")
    /\ UNCHANGED <<memories, heap, DOMAIN_INSTRUCTIONS, uuids, returned,
                   user_question, supplied, conversation_id, memory, docs, context,
                   chat_history, output, request, before, log, san>>

\* retriever.invoke without its own handler: the exception reaches handle_query's
RetrieveUnhandled(w) == HandleQueryExcept(w) /\ UNCHANGED <<heap, log>>

\* a retrieval handler that stores the apology as an exchange
RetrieveExceptSaved(w) ==
    /\ Finish(w, RetrieverRaisedAnswer)
    /\ heap' = [heap EXCEPT ![memory[w]] =
                   save_context(@, user_question[w], RetrieverRaisedAnswer)]
    /\ log' = log

\* a retrieval handler that invokes the retriever again
RetrieveRetry(w) ==
    /\ pc' = [pc EXCEPT ![w] = "retrieve"]
    /\ result' = result
    /\ UNCHANGED <<heap, log>>

\* lines 121-123: except Exception around retriever.invoke
RetrieveExcept(w) == Finish(w, RetrieverRaisedAnswer) /\ UNCHANGED <<heap, log>>

\* lines 119-126: retriever.invoke returns documents, joined into context, or raises
Retrieve(w, env) ==
    /\ pc[w] = "retrieve"
    /\ \/ \E passages \in env.docs :
            /\ docs' = [docs EXCEPT ![w] = passages]
            /\ context' = [context EXCEPT ![w] = JoinContext(passages)]
            /\ pc' = [pc EXCEPT ![w] = "format_history"]
            /\ result' = result
            /\ Did(w, "retrieve")
            /\ UNCHANGED <<heap, log>>
       \/ /\ RetrieveExcept(w)
          /\ UNCHANGED <<docs, context>>
          /\ Did(w, "retrieve_raised")
    /\ UNCHANGED <<memories, DOMAIN_INSTRUCTIONS, uuids, returned,
                   user_question, supplied, conversation_id, memory,
                   chat_history, output, request, before, san>>

\* line 129: chat_history = format_chat_history(memory, ...), whose
\* load_memory_variables may raise
FormatHistory(w, env) ==
    /\ pc[w] = "format_history"
    /\ \E raised \in env.history_raises :
         /\ chat_history' = [chat_history EXCEPT ![w] =
                               format_chat_history(heap[memory[w]], raised)]
         /\ Did(w, IF raised THEN "format_raised" ELSE "format")
    /\ pc' = [pc EXCEPT ![w] = "invoke_chain"]
    /\ UNCHANGED <<memories, heap, DOMAIN_INSTRUCTIONS, uuids, returned,
                   user_question, supplied, conversation_id, memory, docs, context,
                   output, request, result, before, log, san>>

\* chain inputs built from the value the module was loaded with
ChainInputsCached(w) ==
    [domain_instructions |-> <<>>,
     context |-> context[w],
     chat_history |-> chat_history[w],
     question |-> user_question[w]]

\* the dict given to chain.invoke (lines 136-141)
ChainInputs(w) ==
    [domain_instructions |-> DOMAIN_INSTRUCTIONS,
     context |-> context[w],
     chat_history |-> chat_history[w],
     question |-> user_question[w]]

\* except Exception placed first: it shadows except LangChainException
ProviderExceptShadowed(w) == Finish(w, ChainOtherAnswer)

\* lines 143-145: except LangChainException
ProviderExcept(w) == Finish(w, ChainProviderAnswer)

\* lines 146-148: except Exception
ChainExcept(w) == Finish(w, ChainOtherAnswer)

\* lines 133-148: get_llm raises before the chain is invoked, or the chain is
\* invoked and returns text, raises LangChainException, or raises another exception
InvokeChain(w, env) ==
    /\ pc[w] = "invoke_chain"
    /\ \/ /\ ChainExcept(w)
          /\ Did(w, "get_llm_raised")
          /\ UNCHANGED <<request, output>>
       \/ /\ request' = [request EXCEPT ![w] = ChainInputs(w)]
          /\ \/ \E text \in env.outputs :
                  /\ output' = [output EXCEPT ![w] = text]
                  /\ pc' = [pc EXCEPT ![w] = "strip"]
                  /\ result' = result
                  /\ Did(w, "llm")
             \/ ProviderExcept(w) /\ output' = output /\ Did(w, "llm_provider_error")
             \/ ChainExcept(w) /\ output' = output /\ Did(w, "llm_other_error")
    /\ UNCHANGED <<memories, heap, DOMAIN_INSTRUCTIONS, uuids, returned,
                   user_question, supplied, conversation_id, memory, docs, context,
                   chat_history, before, log, san>>

\* line 151: output = strip_artifacts(output, ...)
StripOutput(w) ==
    /\ pc[w] = "strip"
    /\ output' = [output EXCEPT ![w] = strip_artifacts(output[w])]
    /\ pc' = [pc EXCEPT ![w] = "save"]
    /\ Did(w, "strip")
    /\ UNCHANGED <<memories, heap, DOMAIN_INSTRUCTIONS, uuids, returned,
                   user_question, supplied, conversation_id, memory, docs, context,
                   chat_history, request, result, before, log, san>>

\* a save that writes the session constructed last, whoever owns it
SaveTargetLatest(w) == Len(heap)

\* the session object that memory.save_context writes
SaveTarget(w) == memory[w]

\* a save handler that gives up the answer for the generic apology
SaveExceptApology(w) == HandleQueryExcept(w)

\* lines 156-165: except Exception around save_context logs and goes on to
\* return the output
SaveExcept(w) == Finish(w, output[w])

\* lines 153-165: memory.save_context stores the exchange, or raises and the
\* failure is swallowed; the output is returned either way
SaveContext(w) ==
    /\ pc[w] = "save"
    /\ \/ /\ heap' = [heap EXCEPT ![SaveTarget(w)] =
                        save_context(@, user_question[w], output[w])]
          /\ log' = Append(log, [id |-> conversation_id[w], obj |-> SaveTarget(w),
                                 q |-> user_question[w], a |-> output[w]])
          /\ Did(w, "save")
          /\ Finish(w, output[w])
       \/ /\ UNCHANGED <<heap, log>>
          /\ Did(w, "save_raised")
          /\ SaveExcept(w)
    /\ UNCHANGED <<memories, DOMAIN_INSTRUCTIONS, uuids, returned,
                   user_question, supplied, conversation_id, memory, docs, context,
                   chat_history, output, request, before, san>>

\* the caller receives the result; the call's locals are gone
Return(w) ==
    /\ pc[w] = "done"
    /\ returned' = IF result[w].conversation_id[1] = "uuid"
                   THEN returned \cup {result[w].conversation_id} ELSE returned
    /\ pc' = [pc EXCEPT ![w] = "idle"]
    /\ user_question' = [user_question EXCEPT ![w] = <<>>]
    /\ supplied' = [supplied EXCEPT ![w] = NoId]
    /\ conversation_id' = [conversation_id EXCEPT ![w] = NoId]
    /\ memory' = [memory EXCEPT ![w] = 0]
    /\ docs' = [docs EXCEPT ![w] = <<>>]
    /\ context' = [context EXCEPT ![w] = <<>>]
    /\ chat_history' = [chat_history EXCEPT ![w] = <<>>]
    /\ output' = [output EXCEPT ![w] = <<>>]
    /\ request' = [request EXCEPT ![w] = NoRequest]
    /\ result' = [result EXCEPT ![w] = NoResult]
    /\ trace' = [trace EXCEPT ![w] = <<>>]
    /\ before' = [before EXCEPT ![w] = NoSnapshot]
    /\ UNCHANGED <<memories, heap, DOMAIN_INSTRUCTIONS, uuids, log, san>>

\* line 19: DOMAIN_INSTRUCTIONS is set from outside (/set_config)
SetConfig ==
    /\ \E d \in DomainValues \ {DOMAIN_INSTRUCTIONS} : DOMAIN_INSTRUCTIONS' = d
    /\ UNCHANGED <<memories, heap, uuids, returned, pc, locals, log, san>>

\* ------------------------------------------- strip_artifacts on its own
\* every text of at most n tokens
Texts(n) == UNION {[1..k -> Alphabet] : k \in 0..n}

InitSan ==
    /\ InitProgram
    /\ san \in {[pc |-> "start", input |-> t, once |-> <<>>, twice |-> <<>>,
                   failed |-> 0] : t \in Texts(MaxLen)}

\* strip_artifacts(x)
SanitizeOnce ==
    /\ san.pc = "start"
    /\ san' = [san EXCEPT !.pc = "once", !.once = strip_artifacts(san.input)]
    /\ UNCHANGED <<memories, heap, DOMAIN_INSTRUCTIONS, uuids, returned, pc, locals, log>>

\* strip_artifacts(strip_artifacts(x))
SanitizeTwice ==
    /\ san.pc = "once"
    /\ san' = [san EXCEPT !.pc = "twice", !.twice = strip_artifacts(san.once)]
    /\ UNCHANGED <<memories, heap, DOMAIN_INSTRUCTIONS, uuids, returned, pc, locals, log>>

\* strip_artifacts(x) in which one statement of the try block raises
SanitizeRaising ==
    /\ san.pc = "start"
    /\ \E step \in 1..4 :
         san' = [san EXCEPT !.pc = "returned", !.failed = step,
                            !.once = strip_artifacts_raising(san.input, step)]
    /\ UNCHANGED <<memories, heap, DOMAIN_INSTRUCTIONS, uuids, returned, pc, locals, log>>

NextSan == SanitizeOnce \/ SanitizeTwice \/ SanitizeRaising

SpecSan == InitSan /\ [][NextSan]_vars

\* ------------------------------------------------------------ specifications
Step(w, env) ==
    \/ Call(w, env)
    \/ Validate(w)
    \/ CheckMemory(w)
    \/ CreateMemory(w)
    \/ GetMemory(w)
    \/ HandleValidate(w)
    \/ GetRetriever(w)
    \/ Retrieve(w, env)
    \/ FormatHistory(w, env)
    \/ InvokeChain(w, env)
    \/ StripOutput(w)
    \/ SaveContext(w)
    \/ Return(w)

\* one caller, one conversation: the first call supplies no id, every later
\* call supplies the id it was given; the domain instructions change at any time
Next ==
    \/ Step(SeqWorker, SeqEnv)
    \/ SetConfig

Spec == Init /\ [][Next]_vars

\* handle_query called directly, one call after the other on one session
NextHandler ==
    \/ CallHandler(SeqWorker, HandlerEnv)
    \/ HandleValidate(SeqWorker)
    \/ GetRetriever(SeqWorker)
    \/ Retrieve(SeqWorker, HandlerEnv)
    \/ FormatHistory(SeqWorker, HandlerEnv)
    \/ InvokeChain(SeqWorker, HandlerEnv)
    \/ StripOutput(SeqWorker)
    \/ SaveContext(SeqWorker)
    \/ Return(SeqWorker)

SpecHandler == Init /\ [][NextHandler]_vars

\* concurrent callers: any worker takes the next step of its call
NextConc == \E w \in Workers : Step(w, ConcEnv)

SpecConc == Init /\ [][NextConc]_vars

\* ------------------------------------------------------------------ claims
\* a text made of whitespace only (the empty text included)
BlankText(q) == q # NotText /\ \A i \in 1..Len(q) : q[i] \in Space

Min(a, b) == IF a < b THEN a ELSE b

\* the exchanges stored in session object obj, oldest first
ExchangesOf(obj) == SelectSeq(log, LAMBDA e : e.obj = obj)

\* the last n elements of a sequence
LastN(seq, n) == SubSeq(seq, Len(seq) - Min(n, Len(seq)) + 1, Len(seq))

\* exchanges as alternating labelled turns, oldest first
RECURSIVE Turns(_)
Turns(exs) ==
    IF exs = <<>> THEN <<>>
    ELSE <<"User: ">> \o Head(exs).q \o <<"\n", "AI: ">> \o Head(exs).a
         \o (IF Tail(exs) = <<>> THEN <<>> ELSE <<"\n">> \o Turns(Tail(exs)))

\* the session object the call of w found registered when it started, or 0
ObjectBefore(w) ==
    IF conversation_id[w] \in DOMAIN before[w].memories
    THEN before[w].memories[conversation_id[w]] ELSE 0

\* the messages the conversation of w held when its call started
SessionBefore(w) ==
    IF ObjectBefore(w) = 0 THEN <<>> ELSE before[w].heap[ObjectBefore(w)]

Ended(w, event) ==
    pc[w] = "done" /\ trace[w] # <<>> /\ trace[w][Len(trace[w])] = event

\* C1: answer_question never raises to its caller, and every call that ends
\* returns a result made of an answer text and a conversation id, whatever the
\* question and whatever the collaborators did.
C1_NeverRaises ==
    \A w \in Workers :
        /\ pc[w] # "raised"
        /\ pc[w] = "done" =>
             /\ DOMAIN result[w] = {"answer", "conversation_id"}
             /\ result[w].answer \in Seq(STRING)
             /\ result[w].conversation_id # NoId
             /\ result[w].conversation_id = conversation_id[w]

\* C1 witness: a call on a question that is not a text ended in the outermost
\* handler of answer_question with a result.
C1_Witness ==
    \E w \in Workers :
        /\ pc[w] = "done"
        /\ user_question[w] = NotText
        /\ result[w].answer = AnswerCriticalAnswer

C3_HistoryIsLastK ==
    \A w \in Workers :
        (pc[w] = "invoke_chain" /\ trace[w][Len(trace[w])] = "format") =>
            LET exs == ExchangesOf(memory[w])
            IN  chat_history[w] =
                    IF exs = <<>> THEN NoHistoryText
                    ELSE HistoryHeader \o Turns(LastN(exs, K))

\* C3 witness: the history was formatted after 6 exchanges, and the first of
\* them differs from the second, so its absence shows.
C3_Witness ==
    \E w \in Workers :
        /\ pc[w] = "invoke_chain"
        /\ trace[w][Len(trace[w])] = "format"
        /\ Len(ExchangesOf(memory[w])) = K + 1
        /\ ExchangesOf(memory[w])[1].q # ExchangesOf(memory[w])[2].q

\* C4: a call with an empty or whitespace-only question returns the fixed
\* clarification answer, leaves the memory store as it was when the call
\* started (no session created, none changed) and invokes no collaborator.
C4_BlankQuestionFrame ==
    \A w \in Workers :
        (pc[w] = "done" /\ BlankText(user_question[w])) =>
            /\ result[w].answer = EmptyQuestionAnswer
            /\ memories = before[w].memories
            /\ heap = before[w].heap
            /\ trace[w] = <<>>

\* C4 witness: a whitespace-only question on an id that has no session ended.
C4_Witness ==
    \E w \in Workers :
        /\ pc[w] = "done"
        /\ user_question[w] = <<" ", "\n">>
        /\ conversation_id[w] \notin DOMAIN memories

\* C5 as claimed: a retriever that is None and a retrieval that raises end the
\* query with the same fixed "information system" answer.
C5_SameAnswer ==
    \A w \in Workers :
        (Ended(w, "get_retriever_none") \/ Ended(w, "retrieve_raised")) =>
            result[w].answer = RetrieverNoneAnswer

\* C5 amended: a retriever that is None ends the query with the fixed
\* "information system" answer and a retrieval that raises ends it with the
\* fixed "couldn't retrieve the necessary information" answer; both results
\* carry the conversation id of the call (the supplied one, else a generated one).
C5_RetrieverAnswers ==
    \A w \in Workers :
        /\ Ended(w, "get_retriever_none") => result[w].answer = RetrieverNoneAnswer
        /\ Ended(w, "retrieve_raised") => result[w].answer = RetrieverRaisedAnswer
        /\ (Ended(w, "get_retriever_none") \/ Ended(w, "retrieve_raised")) =>
             /\ result[w].conversation_id # NoId
             /\ result[w].conversation_id # EmptyId
             /\ supplied[w] \notin {NoId, EmptyId} =>
                  result[w].conversation_id = supplied[w]

\* C5 witness: a retrieval raised and the call ended.
C5_Witness ==
    \E w \in Workers :
        Ended(w, "retrieve_raised") /\ result[w].answer = RetrieverRaisedAnswer

\* C6 as claimed: when the retrieval raises, the memory store after the call
\* equals the memory store before it.
C6_StoreIdentical ==
    \A w \in Workers :
        Ended(w, "retrieve_raised") =>
            memories = before[w].memories /\ heap = before[w].heap

\* C6 amended: when the retrieval raises, no exchange is stored and every
\* session that existed before the call is still registered, the same object
\* with the same messages; an id that had no session before the call has a
\* new, empty one after it.
C6_NoExchangeStored ==
    \A w \in Workers :
        Ended(w, "retrieve_raised") =>
            /\ \A id \in DOMAIN before[w].memories :
                 id \in DOMAIN memories /\ memories[id] = before[w].memories[id]
            /\ \A i \in 1..Len(before[w].heap) : heap[i] = before[w].heap[i]
            /\ DOMAIN memories = DOMAIN before[w].memories \cup {conversation_id[w]}
            /\ heap[memories[conversation_id[w]]] = SessionBefore(w)

\* C6 witness: the retrieval raised in a call on an id that had no session.
C6_Witness ==
    \E w \in Workers :
        /\ Ended(w, "retrieve_raised")
        /\ conversation_id[w] \notin DOMAIN before[w].memories
        /\ conversation_id[w] \in DOMAIN memories

\* C7: a provider failure (LangChainException) of the completion service ends
\* the query with the "try again or contact support" answer, any other failure
\* with the distinct "unexpected error" answer; no exception escapes and the
\* conversation holds the exchanges it held before the call.
C7_GenerationFailure ==
    \A w \in Workers :
        /\ pc[w] # "raised"
        /\ ChainProviderAnswer # ChainOtherAnswer
        /\ Ended(w, "llm_provider_error") => result[w].answer = ChainProviderAnswer
        /\ (Ended(w, "llm_other_error") \/ Ended(w, "get_llm_raised")) =>
             result[w].answer = ChainOtherAnswer
        /\ (Ended(w, "llm_provider_error") \/ Ended(w, "llm_other_error")
                \/ Ended(w, "get_llm_raised")) =>
             /\ heap[memories[conversation_id[w]]] = SessionBefore(w)
             /\ memory[w] = memories[conversation_id[w]]

\* C7 witness: the provider failed in a call on a conversation with history.
C7_Witness ==
    \E w \in Workers :
        Ended(w, "llm_provider_error") /\ SessionBefore(w) # <<>>

\* C8 as claimed: strip_artifacts is idempotent.
C8_Idempotent ==
    san.pc = "twice" => san.twice = san.once

IsPrefix(s, t) == Len(s) <= Len(t) /\ SubSeq(t, 1, Len(s)) = s

\* C9: a call without a conversation id gets a newly generated id; a session,
\* once registered for an id, stays the same object and only grows, whatever
\* later calls supply that id; and the second call on the conversation gives
\* the completion service a history holding the exchange the first one saved.
C9_GetOrCreate ==
    [][\A w \in Workers :
        /\ (pc[w] = "idle" /\ pc'[w] = "validate" /\ supplied'[w] = NoId) =>
             /\ conversation_id'[w] # NoId
             /\ conversation_id'[w] \notin DOMAIN memories \cup returned
        /\ \A id \in DOMAIN memories :
             /\ id \in DOMAIN memories'
             /\ memories'[id] = memories[id]
             /\ IsPrefix(heap[memories[id]], heap'[memories[id]])
        /\ (/\ pc[w] = "invoke_chain"
            /\ request'[w] # NoRequest
            /\ trace[w][Len(trace[w])] = "format"
            /\ Len(log) = 1) =>
             /\ log[1].id = conversation_id[w]
             /\ log[1].obj = memory[w]
             /\ request'[w].chat_history = HistoryHeader \o Turns(log)
      ]_vars

\* C9 witness: the second call supplied the generated id of the first, and the
\* chain was invoked with the first call's exchange as history.
C9_Witness ==
    \E w \in Workers :
        /\ supplied[w] = Uuid(1)
        /\ pc[w] = "strip"
        /\ Len(log) = 1
        /\ request[w].chat_history = HistoryHeader \o Turns(log)

\* the conversation id of the call in which worker w takes this step
ActingId(w) == IF pc[w] = "idle" THEN conversation_id'[w] ELSE conversation_id[w]

\* C10: under any interleaving, a step of a query on one id leaves the session
\* of every other id registered, the same object, with the same messages; a
\* session object holds exchanges of one id only; and the history a query
\* formats is made of the exchanges stored under its own id.
C10_NoInterference ==
    [][\A w \in Workers :
        pc'[w] # pc[w] =>
          /\ \A b \in DOMAIN memories :
               b # ActingId(w) =>
                 /\ b \in DOMAIN memories'
                 /\ memories'[b] = memories[b]
                 /\ heap'[memories[b]] = heap[memories[b]]
          /\ \A i, j \in 1..Len(log') :
               log'[i].obj = log'[j].obj => log'[i].id = log'[j].id
          /\ pc[w] = "format_history" =>
               LET exs == ExchangesOf(memory[w])
               IN  /\ \A i \in 1..Len(exs) : exs[i].id = conversation_id[w]
                   /\ chat_history'[w] =
                        IF exs = <<>> THEN NoHistoryText
                        ELSE HistoryHeader \o Turns(LastN(exs, K))
      ]_vars

\* C10 witness: two queries on different ids are in flight; one has stored its
\* exchange while the other is between formatting its history and saving.
C10_Witness ==
    \E w, v \in Workers :
        /\ conversation_id[w] # conversation_id[v]
        /\ Ended(w, "save")
        /\ pc[v] \in {"invoke_chain", "strip", "save"}
        /\ memory[v] # memory[w]
        /\ chat_history[v] = NoHistoryText

\* C11 as claimed: every ended call returns a conversation id; it is the
\* supplied one whenever the caller supplied one (anything but None), and a
\* fresh id is generated only when none was supplied.
C11_SuppliedIdReturned ==
    \A w \in Workers :
        pc[w] = "done" =>
            /\ result[w].conversation_id # NoId
            /\ supplied[w] # NoId => result[w].conversation_id = supplied[w]

\* C11 amended: every ended call returns a conversation id, on every path;
\* it is the supplied one whenever the caller supplied a non-empty id, and a
\* fresh id is generated exactly when the caller supplied none or the empty
\* string.
C11_IdAlwaysReturned ==
    [][\A w \in Workers :
        /\ pc'[w] = "done" =>
             /\ result'[w].conversation_id \notin {NoId, EmptyId}
             /\ supplied'[w] \notin {NoId, EmptyId} =>
                  result'[w].conversation_id = supplied'[w]
             /\ supplied'[w] \in {NoId, EmptyId} =>
                  result'[w].conversation_id[1] = "uuid"
        /\ (pc[w] = "idle" /\ pc'[w] = "validate") =>
             (uuids' # uuids <=> supplied'[w] \in {NoId, EmptyId})
      ]_vars

\* C11 witness: a call that supplied its id ended in the outermost handler
\* of answer_question and returned that id.
C11_Witness ==
    \E w \in Workers :
        /\ pc[w] = "done"
        /\ supplied[w] = Uuid(1)
        /\ result[w].answer = AnswerCriticalAnswer
        /\ result[w].conversation_id = Uuid(1)

\* C12 as claimed: strip_artifacts never raises on a text, and when one of
\* its statements fails it returns the text it was given, unchanged.
C12_FailureReturnsInput ==
    /\ san.pc \in {"off", "start", "once", "twice", "returned"}
    /\ san.failed # 0 => san.once = san.input

\* the events after which a query ends without going on
FailureEvents ==
    {"create_raised", "get_retriever_none", "get_retriever_raised",
     "retrieve_raised", "get_llm_raised", "llm_provider_error", "llm_other_error"}

\* the retriever was invoked / the completion service was invoked / the
\* memory append was attempted
RetrieverEvents == {"retrieve", "retrieve_raised"}
LLMEvents == {"llm", "llm_provider_error", "llm_other_error"}
SaveEvents == {"save", "save_raised"}

\* the positions of a trace holding one of the events
Positions(tr, events) == {i \in 1..Len(tr) : tr[i] \in events}

\* the stages of one query, in order, none repeated, none after a failure
StagesInOrder(tr) ==
    /\ \A i, j \in 1..Len(tr) : tr[i] = tr[j] => i = j
    /\ Cardinality(Positions(tr, RetrieverEvents)) <= 1
    /\ Cardinality(Positions(tr, LLMEvents)) <= 1
    /\ Cardinality(Positions(tr, SaveEvents)) <= 1
    /\ \A i \in Positions(tr, FailureEvents) : i = Len(tr)
    /\ \A i \in Positions(tr, LLMEvents) : \E j \in 1..(i - 1) : tr[j] = "retrieve"
    /\ \A i \in Positions(tr, {"strip"}) : i > 1 /\ tr[i - 1] = "llm"
    /\ \A i \in Positions(tr, SaveEvents) : i > 1 /\ tr[i - 1] = "strip"

\* C13: each query goes through its stages in order, none repeated: at most
\* one retriever invocation, at most one completion-service invocation and
\* only after a successful retrieval, at most one memory append and only after
\* a successful completion and the sanitizing; nothing follows a failed stage,
\* and the messages of a session change only in a successful memory append.
C13_StagesInOrder ==
    [][/\ \A w \in Workers :
            /\ StagesInOrder(trace'[w])
            /\ (trace'[w] # <<>> /\ trace'[w][Len(trace'[w])] \in FailureEvents) =>
                 pc'[w] = "done"
       /\ \A i \in 1..Len(heap) :
            heap'[i] # heap[i] =>
                \E w \in Workers :
                    /\ pc[w] = "save" /\ memory[w] = i
                    /\ trace'[w] = Append(trace[w], "save")
                    /\ heap'[i] = save_context(heap[i], user_question[w], output[w])
      ]_vars

\* C13 witness: a query on a conversation with history went through every
\* stage and its exchange was appended.
C13_Witness ==
    \E w \in Workers :
        /\ pc[w] = "done"
        /\ trace[w] = <<"get_retriever", "retrieve", "format", "llm", "strip", "save">>
        /\ Len(heap[memory[w]]) = 4

\* C14: a query that succeeds appends exactly one exchange to the session
\* registered under its own conversation id and changes no other session; the
\* exchange is (the caller's question, the sanitized completion), its answer is
\* the text returned to the caller; an empty session then holds one exchange.
C14_SuccessAppendsExchange ==
    \A w \in Workers :
        Ended(w, "save") =>
            /\ memory[w] = memories[conversation_id[w]]
            /\ heap[memory[w]] =
                 SessionBefore(w) \o <<[type |-> "human", content |-> user_question[w]],
                                       [type |-> "ai", content |-> result[w].answer]>>
            /\ \E text \in SeqEnv.outputs : result[w].answer = strip_artifacts(text)
            /\ \A i \in 1..Len(before[w].heap) :
                 i # memory[w] => heap[i] = before[w].heap[i]
            /\ Len(heap) <= Len(before[w].heap) + 1
            /\ SessionBefore(w) = <<>> => Len(heap[memory[w]]) = 2

\* C14 witness: a query on a conversation that had no session succeeded, and
\* the answer it returned is not the raw completion.
C14_Witness ==
    \E w \in Workers :
        /\ Ended(w, "save")
        /\ SessionBefore(w) = <<>>
        /\ result[w].answer \notin SeqEnv.outputs
        /\ heap[memory[w]][2].content = result[w].answer

\* the fixed answers that report a failure or ask for a question
FixedAnswers ==
    {EmptyQuestionAnswer, MemoryInitAnswer, AnswerCriticalAnswer, EmptyQueryAnswer,
     RetrieverNoneAnswer, RetrieverRaisedAnswer, ChainProviderAnswer,
     ChainOtherAnswer, HandleCriticalAnswer}

\* C15: when the memory append raises after a successful completion, the call
\* still returns the sanitized completion (no fixed failure answer), and the
\* session holds exactly the messages it held before the call, so the turn is
\* in no history read afterwards.
C15_SaveFailureSwallowed ==
    \A w \in Workers :
        Ended(w, "save_raised") =>
            /\ pc[w] # "raised"
            /\ result[w].answer = output[w]
            /\ \E text \in SeqEnv.outputs : result[w].answer = strip_artifacts(text)
            /\ result[w].answer \notin FixedAnswers
            /\ memory[w] = memories[conversation_id[w]]
            /\ heap[memory[w]] = SessionBefore(w)
            /\ Len(ExchangesOf(memory[w])) * 2 = Len(SessionBefore(w))
            /\ format_chat_history(heap[memory[w]], FALSE) =
                 format_chat_history(SessionBefore(w), FALSE)

\* C15 witness: the append raised in a query on a conversation with history.
C15_Witness ==
    \E w \in Workers :
        /\ Ended(w, "save_raised")
        /\ SessionBefore(w) # <<>>
        /\ result[w].answer = <<"a2">>

\* C16: a failure while the history of a session is read does not end the
\* query: format_chat_history returns the fixed error text, the query goes on
\* to the completion service, which is invoked with that text as the history,
\* and the query can end in success; an empty session formats to the fixed
\* "no history" text.
C16_HistoryFailureDegrades ==
    \A w \in Workers :
        LET tr == trace[w]
        IN  /\ (tr # <<>> /\ tr[Len(tr)] = "format_raised") =>
                 /\ pc[w] = "invoke_chain"
                 /\ chat_history[w] = HistoryErrorText
            /\ (Positions(tr, {"format_raised"}) # {} /\ request[w] # NoRequest) =>
                 /\ request[w].chat_history = HistoryErrorText
                 /\ Positions(tr, LLMEvents) # {}
            /\ (tr # <<>> /\ tr[Len(tr)] = "format" /\ heap[memory[w]] = <<>>) =>
                 chat_history[w] = NoHistoryText
            /\ HistoryErrorText \notin {NoHistoryText, <<>>}

\* C16 witness: the history read failed on a session that holds an exchange,
\* and the query still ended with its exchange saved.
C16_Witness ==
    \E w \in Workers :
        /\ Ended(w, "save")
        /\ Positions(trace[w], {"format_raised"}) # {}
        /\ request[w].chat_history = HistoryErrorText
        /\ SessionBefore(w) # <<>>

\* C17: handle_query, given an empty or whitespace-only question, returns the
\* fixed clarification text; it invokes neither the retriever nor the
\* completion service, does not read the session and appends nothing to it.
C17_HandlerBlankShortCircuit ==
    \A w \in Workers :
        (pc[w] = "done" /\ BlankText(user_question[w])) =>
            /\ result[w].answer = EmptyQueryAnswer
            /\ trace[w] = <<>>
            /\ context[w] = <<>> /\ chat_history[w] = <<>> /\ output[w] = <<>>
            /\ request[w] = NoRequest
            /\ heap = before[w].heap
            /\ memories = before[w].memories

\* C17 witness: handle_query was given a whitespace-only question and a
\* session that holds an exchange, and returned.
C17_Witness ==
    \E w \in Workers :
        /\ pc[w] = "done"
        /\ user_question[w] = <<" ", "\n">>
        /\ result[w].answer = EmptyQueryAnswer
        /\ memory[w] = 1 /\ Len(heap[1]) = 2

\* C18: whatever changes of the domain instructions are interleaved with the
\* queries, the request a query gives to the completion service carries the
\* value the domain instructions have at the moment of that invocation.
C18_DomainInstructionsFresh ==
    [][\A w \in Workers :
        (pc[w] = "invoke_chain" /\ request'[w] # NoRequest) =>
            /\ request'[w].domain_instructions = DOMAIN_INSTRUCTIONS
            /\ request'[w].question = user_question[w]
      ]_vars

\* C18 witness: the second query of a conversation invoked the completion
\* service with instructions that were set after the module was loaded, and
\* the instructions have been changed again since.
C18_Witness ==
    \E w \in Workers :
        /\ pc[w] = "strip" /\ Len(log) = 1
        /\ request[w].domain_instructions = <<"dom">>
        /\ DOMAIN_INSTRUCTIONS = <<>>

\* the separator "\n\n"
BlankLine == <<"\n", "\n">>

\* texts joined by the blank-line separator
RECURSIVE Joined(_)
Joined(texts) ==
    IF texts = <<>> THEN <<>>
    ELSE IF Len(texts) = 1 THEN texts[1]
    ELSE texts[1] \o BlankLine \o Joined(Tail(texts))

\* C19: the context given to the completion service is the non-empty passages
\* of the retrieval, in retrieval order, joined by a blank line; a retrieval
\* without passages gives the empty context and the query goes on.
C19_ContextJoin ==
    \A w \in Workers :
        LET tr == trace[w]
            expected == Joined(SelectSeq(docs[w], LAMBDA p : p # <<>>))
        IN  /\ Positions(tr, {"retrieve"}) # {} => context[w] = expected
            /\ request[w] # NoRequest => request[w].context = expected
            /\ (tr # <<>> /\ tr[Len(tr)] = "retrieve") =>
                 /\ pc[w] = "format_history"
                 /\ docs[w] = <<>> => context[w] = <<>>

\* C19 witness: the completion service was invoked with the context of a
\* retrieval that held an empty passage between two others.
C19_Witness ==
    \E w \in Workers :
        /\ request[w] # NoRequest
        /\ Len(docs[w]) = 3 /\ docs[w][2] = <<>>
        /\ request[w].context = docs[w][1] \o <<"\n", "\n">> \o docs[w][3]

\* C19 witness for the retrieval without passages: the query went on to a
\* saved exchange.
C19_EmptyWitness ==
    \E w \in Workers :
        Ended(w, "save") /\ docs[w] = <<>> /\ request[w].context = <<>>

\* C20 as claimed: whatever the interleaving of concurrent calls on one
\* conversation id, every exchange a call has saved is in the session that is
\* registered in the store under that id, and was written to that object.
C20_AtomicCreation ==
    \A i \in 1..Len(log) :
        /\ log[i].id \in DOMAIN memories
        /\ log[i].obj = memories[log[i].id]
        /\ \E j \in 1..Len(heap[memories[log[i].id]]) :
             heap[memories[log[i].id]][j] = [type |-> "ai", content |-> log[i].a]

====
